---------------------------- MODULE Spec2Model ----------------------------
(***************************************************************************)
(* A model of the Tally -> MailerLite webhook receiver                     *)
(* (src/api/tally-webhook.js and the two earlier echo handlers).           *)
(*                                                                         *)
(* Strings are sequences of one-character strings, so that trimming,       *)
(* lower-casing, substring search, regular-expression matching and hex     *)
(* decoding are computed rather than assumed.  JavaScript values are       *)
(* records [k, s, n]: k is the typeof-like tag, s the characters of a      *)
(* string, n the value of a number.                                        *)
(***************************************************************************)
EXTENDS Integers, Sequences, FiniteSets, TLC

(***************************************************************************)
(* Bounds of the model.                                                    *)
(***************************************************************************)
\* longest field list the extractor specification builds
MaxFields == 3
\* bytes of the modelled digest (SHA-256 has 32; the hex text has two digits per byte)
DigestBytes == 2
\* longest raw body of the signature specification
MaxRawLen == 2
\* requests handled (possibly interleaved) in one behaviour
NumRequests == 2

(***************************************************************************)
(* JavaScript values                                                       *)
(***************************************************************************)
Null      == [k |-> "null",      s |-> <<>>, n |-> 0]
Undefined == [k |-> "undefined", s |-> <<>>, n |-> 0]
Str(s)    == [k |-> "string",    s |-> s,    n |-> 0]
Num(n)    == [k |-> "number",    s |-> <<>>, n |-> n]
\* the value of an inherited property of an object literal (Object.prototype.constructor)
ObjectFunction == [k |-> "function", s |-> <<>>, n |-> 0]

\* ToBoolean: null, undefined, "" and 0 are falsy
Truthy(v) ==
    CASE v.k = "string" -> v.s # <<>>
      [] v.k = "number" -> v.n # 0
      [] v.k \in {"function", "object"} -> TRUE
      [] OTHER -> FALSE

DigitChars == <<"0", "1", "2", "3", "4", "5", "6", "7", "8", "9">>

RECURSIVE NatToString(_)
NatToString(n) ==
    IF n < 10 THEN <<DigitChars[n + 1]>>
    ELSE NatToString(n \div 10) \o <<DigitChars[(n % 10) + 1]>>

\* String(v) for the values a JSON payload can hold
String(v) ==
    CASE v.k = "string" -> v.s
      [] v.k = "number" -> IF v.n < 0 THEN <<"-">> \o NatToString(-v.n) ELSE NatToString(v.n)
      [] v.k = "null" -> <<"n", "u", "l", "l">>
      [] OTHER -> <<"u", "n", "d", "e", "f", "i", "n", "e", "d">>

(***************************************************************************)
(* String primitives                                                       *)
(***************************************************************************)
UpperChars == <<"A", "B", "C", "D", "E", "F", "G", "H", "I", "J", "K", "L", "M",
                "N", "O", "P", "Q", "R", "S", "T", "U", "V", "W", "X", "Y", "Z">>
LowerChars == <<"a", "b", "c", "d", "e", "f", "g", "h", "i", "j", "k", "l", "m",
                "n", "o", "p", "q", "r", "s", "t", "u", "v", "w", "x", "y", "z">>

UpperSet == {UpperChars[i] : i \in 1..26}
LowerSet == {LowerChars[i] : i \in 1..26}
LowerOf == [c \in UpperSet |-> LowerChars[CHOOSE i \in 1..26 : UpperChars[i] = c]]
UpperOf == [c \in LowerSet |-> UpperChars[CHOOSE i \in 1..26 : LowerChars[i] = c]]

LowerChar(c) == IF c \in UpperSet THEN LowerOf[c] ELSE c

UpperChar(c) == IF c \in LowerSet THEN UpperOf[c] ELSE c

\* String.prototype.toLowerCase
toLowerCase(s) == [i \in 1..Len(s) |-> LowerChar(s[i])]

\* the regular-expression class \s, on the characters of the model
IsSpace(c) == c \in {" ", "\t", "\n"}

RECURSIVE TrimStart(_)
TrimStart(s) ==
    IF s # <<>> /\ IsSpace(Head(s)) THEN TrimStart(Tail(s)) ELSE s

RECURSIVE TrimEnd(_)
TrimEnd(s) ==
    IF s # <<>> /\ IsSpace(s[Len(s)]) THEN TrimEnd(SubSeq(s, 1, Len(s) - 1)) ELSE s

\* String.prototype.trim
trim(s) == TrimEnd(TrimStart(s))

\* sub occurs in s
Includes(s, sub) ==
    \E i \in 1..(Len(s) - Len(sub) + 1) : SubSeq(s, i, i + Len(sub) - 1) = sub

\* (f.label || ''): the label when it is a non-empty string, '' otherwise
LabelOrEmpty(f) == IF Truthy(f.label) THEN String(f.label) ELSE <<>>

EmailWord == <<"e", "m", "a", "i", "l">>
NameWord  == <<"n", "a", "m", "e">>

\* /email/i.test(f.label || '')
LabelHasEmail(f) == Includes(toLowerCase(LabelOrEmpty(f)), EmailWord)

\* /name/i.test(f.label || '')
LabelHasName(f) == Includes(toLowerCase(LabelOrEmpty(f)), NameWord)

\* [^\s@]
LocalChar(c) == ~IsSpace(c) /\ c # "@"

\* /^[^\s@]+@[^\s@]+\.[^\s@]+$/.test(s)
EmailPattern(s) ==
    \E i \in 2..Len(s) : \E j \in (i + 2)..(Len(s) - 1) :
        /\ s[i] = "@"
        /\ s[j] = "."
        /\ \A p \in 1..Len(s) : p # i => LocalChar(s[p])

\* Array.prototype.find, given the indices of the elements that satisfy the
\* predicate: the first of them, 0 when there is none
FindIndex(hits) ==
    IF hits = {} THEN 0 ELSE CHOOSE i \in hits : \A j \in hits : i <= j

(***************************************************************************)
(* Field extraction                                                        *)
(***************************************************************************)
\* a form field {label, type, value}; type is only ever compared for equality
Field(type, label, value) == [type |-> type, label |-> label, value |-> value]

getEmailByPosition(fields) ==
    LET any(f) == \/ f.type = "INPUT_EMAIL" /\ Truthy(f.value)
                  \/ LabelHasEmail(f) /\ Truthy(f.value)
                  \/ /\ f.type \in {"INPUT_TEXT", "TEXTAREA"}
                     /\ f.value.k = "string"
                     /\ EmailPattern(f.value.s)
        i == FindIndex({k \in 1..Len(fields) : any(fields[k])})
    IN  IF i # 0 THEN Str(trim(String(fields[i].value))) ELSE Null

getEmail(fields) ==
    LET byType(f)   == f.type = "INPUT_EMAIL" /\ Truthy(f.value)
        byLabel(f)  == LabelHasEmail(f) /\ Truthy(f.value)
        payEmail(f) == f.type = "PAYMENT" /\ LabelHasEmail(f) /\ Truthy(f.value)
        emailish(f) == /\ f.type \in {"INPUT_TEXT", "TEXTAREA"}
                       /\ f.value.k = "string"
                       /\ EmailPattern(f.value.s)
        t == FindIndex({k \in 1..Len(fields) : byType(fields[k])})
        l == FindIndex({k \in 1..Len(fields) : byLabel(fields[k])})
        p == FindIndex({k \in 1..Len(fields) : payEmail(fields[k])})
        e == FindIndex({k \in 1..Len(fields) : emailish(fields[k])})
    IN  IF t # 0 THEN Str(trim(String(fields[t].value)))
        ELSE IF l # 0 THEN Str(trim(String(fields[l].value)))
        ELSE IF p # 0 THEN Str(trim(String(fields[p].value)))
        ELSE IF e # 0 THEN Str(trim(fields[e].value.s))
        ELSE Null

\* for (const n of names) { find(label.toLowerCase() === n.toLowerCase() && value) }
RECURSIVE FindByLabels(_, _)
FindByLabels(fields, names) ==
    IF names = <<>> THEN Undefined
    ELSE LET hit(x) == /\ toLowerCase(LabelOrEmpty(x)) = toLowerCase(Head(names))
                       /\ Truthy(x.value)
             i == FindIndex({k \in 1..Len(fields) : hit(fields[k])})
         IN  IF i # 0 THEN Str(trim(String(fields[i].value)))
             ELSE FindByLabels(fields, Tail(names))

FirstNameLabels ==
    << <<"F", "i", "r", "s", "t", " ", "n", "a", "m", "e">>, <<"F", "i", "r", "s", "t", " ", "N", "a", "m", "e">>, <<"V", "o", "r", "n", "a", "m", "e">>, <<"N", "a", "m", "e">>, <<"f", "i", "r", "s", "t", "_", "n", "a", "m", "e">>, <<"f", "i", "r", "s", "t", " ", "n", "a", "m", "e">> >>

getFirstName(fields) ==
    LET byName == FindByLabels(fields, FirstNameLabels)
        payName(f) == f.type = "PAYMENT" /\ LabelHasName(f) /\ Truthy(f.value)
        p == FindIndex({k \in 1..Len(fields) : payName(fields[k])})
    IN  IF byName # Undefined THEN byName
        ELSE IF p # 0 THEN Str(trim(String(fields[p].value)))
        ELSE Undefined

ArchetypeLabels == << <<"A", "r", "c", "h", "e", "t", "y", "p", "e">>, <<"T", "y", "p", "e">>, <<"R", "e", "s", "u", "l", "t">> >>

\* the first field, in list order, that carries any of the three labels
getArchetypeByPosition(fields) ==
    LET hit(x) == /\ \E i \in 1..Len(ArchetypeLabels) :
                        toLowerCase(LabelOrEmpty(x)) = toLowerCase(ArchetypeLabels[i])
                  /\ Truthy(x.value)
        i == FindIndex({k \in 1..Len(fields) : hit(fields[k])})
    IN  IF i # 0 THEN Str(trim(String(fields[i].value))) ELSE Undefined

getArchetype(fields) == FindByLabels(fields, ArchetypeLabels)

\* the own properties of the score map
ScoreKeys ==
    << <<"s", "c", "o", "r", "e", "_", "s", "c", "r", "o", "l", "l", "e", "r">>, <<"s", "c", "o", "r", "e", "_", "b", "i", "n", "g", "e", "r">>, <<"s", "c", "o", "r", "e", "_", "e", "s", "c", "a", "p", "i", "s", "t">>, <<"s", "c", "o", "r", "e", "_", "j", "u", "g", "g", "l", "e", "r">>,
       <<"s", "c", "o", "r", "e", "_", "o", "v", "e", "r", "t", "h", "i", "n", "k", "e", "r">>, <<"s", "c", "o", "r", "e", "_", "c", "h", "a", "s", "e", "r">>, <<"s", "c", "o", "r", "e", "_", "m", "u", "t", "e", "d">>, <<"s", "c", "o", "r", "e", "_", "n", "o", "n", "e">> >>

ScoreNames ==
    << <<"S", "c", "r", "o", "l", "l", "e", "r">>, <<"B", "i", "n", "g", "e", "r">>, <<"E", "s", "c", "a", "p", "i", "s", "t">>, <<"J", "u", "g", "g", "l", "e", "r">>,
       <<"O", "v", "e", "r", "t", "h", "i", "n", "k", "e", "r">>, <<"C", "h", "a", "s", "e", "r">>, <<"M", "u", "t", "e", "d">>, <<"N", "o", "n", "e">> >>

DisplayNames == {Str(ScoreNames[i]) : i \in 1..Len(ScoreNames)}

\* the properties an object literal inherits from Object.prototype whose names are
\* already lower case, with the values they hold
ObjectPrototype == [k |-> "object", s |-> <<>>, n |-> 0]
InheritedKeys == { <<"c", "o", "n", "s", "t", "r", "u", "c", "t", "o", "r">>, <<"_", "_", "p", "r", "o", "t", "o", "_", "_">> }

\* map[key] on the object literal: an own property, else the prototype chain
MapLookup(key) ==
    IF \E i \in 1..Len(ScoreKeys) : ScoreKeys[i] = key
    THEN Str(ScoreNames[CHOOSE i \in 1..Len(ScoreKeys) : ScoreKeys[i] = key])
    ELSE IF key = <<"c", "o", "n", "s", "t", "r", "u", "c", "t", "o", "r">> THEN ObjectFunction
    ELSE IF key = <<"_", "_", "p", "r", "o", "t", "o", "_", "_">> THEN ObjectPrototype
    ELSE Undefined

\* the loop of computeArchetypeFromScores: best is [key, val, none]; none stands for
\* bestKey = null, bestVal = -Infinity
RECURSIVE ScoreLoop(_, _)
ScoreLoop(fields, best) ==
    IF fields = <<>> THEN best
    ELSE LET f == Head(fields)
             label == toLowerCase(LabelOrEmpty(f))
             qualifies == /\ f.type = "CALCULATED_FIELDS"
                          /\ f.value.k = "number"
                          /\ Truthy(MapLookup(label))
         IN  IF qualifies /\ (best.none \/ f.value.n > best.val)
             THEN ScoreLoop(Tail(fields), [key |-> label, val |-> f.value.n, none |-> FALSE])
             ELSE ScoreLoop(Tail(fields), best)

NoBest == [key |-> <<>>, val |-> 0, none |-> TRUE]

computeArchetypeFromScores(fields) ==
    LET best == ScoreLoop(fields, NoBest)
    IN  IF best.none THEN Undefined ELSE MapLookup(best.key)

\* /^score_/.test(f.label || '')
StartsWithScore(f) ==
    LET l == LabelOrEmpty(f)
    IN  Len(l) >= 6 /\ SubSeq(l, 1, 6) = <<"s", "c", "o", "r", "e", "_">>

\* the loop of the earlier variant, over the filtered scoreFields
RECURSIVE ScoreLoopEarly(_, _)
ScoreLoopEarly(scoreFields, best) ==
    IF scoreFields = <<>> THEN best
    ELSE LET f == Head(scoreFields)
             key == toLowerCase(LabelOrEmpty(f))
         IN  IF ~Truthy(MapLookup(key)) THEN ScoreLoopEarly(Tail(scoreFields), best)
             ELSE IF best.none \/ f.value.n > best.val
             THEN ScoreLoopEarly(Tail(scoreFields),
                                 [key |-> key, val |-> f.value.n, none |-> FALSE])
             ELSE ScoreLoopEarly(Tail(scoreFields), best)

computeArchetypeFromScoresEarly(fields) ==
    LET keep(f) == /\ f.type = "CALCULATED_FIELDS"
                   /\ f.value.k = "number"
                   /\ StartsWithScore(f)
        scoreFields == SelectSeq(fields, keep)
        best == ScoreLoopEarly(scoreFields, NoBest)
    IN  IF scoreFields = <<>> \/ best.none THEN Undefined ELSE MapLookup(best.key)

\* a || b
OrElse(a, b) == IF Truthy(a) THEN a ELSE b

\* getArchetype(fields) || computeArchetypeFromScores(fields)
ResolveArchetype(fields) == OrElse(getArchetype(fields), computeArchetypeFromScores(fields))

\* the same expression in the earlier variant
ResolveArchetypeEarly(fields) ==
    OrElse(getArchetype(fields), computeArchetypeFromScoresEarly(fields))

(***************************************************************************)
(* Signature verification                                                  *)
(***************************************************************************)
HexChars == <<"0", "1", "2", "3", "4", "5", "6", "7", "8", "9",
              "a", "b", "c", "d", "e", "f">>

\* [a-f0-9] under the i flag
IsHexChar(c) == \E i \in 1..16 : HexChars[i] = LowerChar(c)

HexValue(c) == (CHOOSE i \in 1..16 : HexChars[i] = LowerChar(c)) - 1

\* Buffer.from(s, 'hex'): one byte per pair of hex digits, stopping at the first
\* pair that is not two hex digits; a trailing single digit is dropped
RECURSIVE BufferFromHex(_)
BufferFromHex(s) ==
    IF Len(s) >= 2 /\ IsHexChar(s[1]) /\ IsHexChar(s[2])
    THEN <<16 * HexValue(s[1]) + HexValue(s[2])>> \o BufferFromHex(SubSeq(s, 3, Len(s)))
    ELSE <<>>

\* crypto.timingSafeEqual inside try/catch: buffers of different length throw,
\* and the catch returns false
TimingSafeEqualOrFalse(a, b) == Len(a) = Len(b) /\ a = b

\* the characters a signed message is made of in this model, and their codes
MessageChars == <<"a", "b", "1", "2", ".", "{", "}">>
CharCode(c) == CHOOSE i \in 1..Len(MessageChars) : MessageChars[i] = c

RECURSIVE MessageNumber(_)
MessageNumber(m) ==
    IF m = <<>> THEN 0
    ELSE MessageNumber(SubSeq(m, 1, Len(m) - 1)) * (Len(MessageChars) + 1)
            + CharCode(m[Len(m)])

RECURSIVE Power(_, _)
Power(b, e) == IF e = 0 THEN 1 ELSE b * Power(b, e - 1)

RECURSIVE HexDigits(_, _)
HexDigits(n, len) ==
    IF len = 0 THEN <<>>
    ELSE HexDigits(n \div 16, len - 1) \o <<HexChars[(n % 16) + 1]>>

\* the longest message the model signs: a timestamp of two characters, ".", the body
MaxMessageLen == 3 + MaxRawLen

\* crypto.createHmac('sha256', secret).update(message).digest('hex').  The digest
\* is DigestBytes long and lower-case hex.  HMAC-SHA256 is modelled as a keyed
\* function without collisions on the secrets and messages of the model: the pair
\* (secret, message) is numbered injectively and the number is permuted within
\* the digest range (multiplying by an odd number modulo a power of two is a
\* bijection).
HmacSha256Hex(secret, message) ==
    LET range == Power(256, DigestBytes)
        n == MessageNumber(secret) * Power(Len(MessageChars) + 1, MaxMessageLen)
                + MessageNumber(message)
    IN  HexDigits(((n % range) * 77 + 43981) % range, 2 * DigestBytes)

\* the positions a match of (?:^|,)\s* can end at: after the start of the text or
\* after a comma, then past any white space
RECURSIVE SkipSpace(_, _)
SkipSpace(h, k) == IF k <= Len(h) /\ IsSpace(h[k]) THEN SkipSpace(h, k + 1) ELSE k

KeyStarts(h) == {1} \cup {c + 1 : c \in {x \in 1..Len(h) : h[x] = ","}}

\* a character class: [chars] or, negated, [^chars]; under the i flag a letter
\* matches in either case
CharClass(chars, negated) == [chars |-> chars, negated |-> negated]

InClass(c, class, ignoreCase) ==
    ((IF ignoreCase THEN LowerChar(c) ELSE c) \in class.chars) # class.negated

\* the longest run of characters of the class starting at position k
Run(h, k, class, ignoreCase) ==
    LET e == CHOOSE x \in (k - 1)..Len(h) :
                /\ \A p \in k..x : InClass(h[p], class, ignoreCase)
                /\ x = Len(h) \/ ~InClass(h[x + 1], class, ignoreCase)
    IN  SubSeq(h, k, e)

\* RegExp.exec for /(?:^|,)\s*KEY(CLASS+)/: the capture of the leftmost match,
\* <<>> when there is none (a capture is never empty)
Capture(h, key, class, ignoreCase) ==
    LET fold(x) == IF ignoreCase THEN toLowerCase(x) ELSE x
        at(k) == LET j == SkipSpace(h, k)
                 IN  IF /\ j + Len(key) - 1 <= Len(h)
                        /\ fold(SubSeq(h, j, j + Len(key) - 1)) = fold(key)
                     THEN Run(h, j + Len(key), class, ignoreCase)
                     ELSE <<>>
        hits == {k \in KeyStarts(h) : at(k) # <<>>}
    IN  IF hits = {} THEN <<>>
        ELSE at(CHOOSE k \in hits : \A q \in hits : k <= q)

\* [^,] and [a-f0-9]
NotComma == CharClass({","}, TRUE)
HexClass == CharClass({HexChars[i] : i \in 1..16}, FALSE)

\* signatureHeader is a JavaScript value: null, undefined or a string
verifyTallySignature(raw, signatureHeader, secret) ==
    IF ~Truthy(signatureHeader) THEN FALSE
    ELSE LET h == signatureHeader.s
             tMatch == Capture(h, <<"t", "=">>, NotComma, FALSE)
             vMatch == Capture(h, <<"v", "1", "=">>, HexClass, TRUE)
         IN  IF tMatch = <<>> \/ vMatch = <<>> THEN FALSE
             ELSE LET t == trim(tMatch)
                      v1 == trim(vMatch)
                      expectedHex == HmacSha256Hex(secret, t \o <<".">> \o raw)
                  IN  TimingSafeEqualOrFalse(BufferFromHex(v1), BufferFromHex(expectedHex))

\* String.prototype.split on a one-character separator
RECURSIVE Split(_, _)
Split(s, sep) ==
    IF \E i \in 1..Len(s) : s[i] = sep
    THEN LET i == CHOOSE x \in 1..Len(s) : s[x] = sep /\ \A y \in 1..(x - 1) : s[y] # sep
         IN  <<SubSeq(s, 1, i - 1)>> \o Split(SubSeq(s, i + 1, Len(s)), sep)
    ELSE <<s>>

\* Object.fromEntries(header.split(',').map(s => s.split('=')))[key]: the second
\* piece of the last entry whose first piece is key
HeaderPart(h, key) ==
    LET entries == Split(h, ",")
        hits == {x \in 1..Len(entries) : Split(entries[x], "=")[1] = key}
    IN  IF hits = {} THEN Undefined
        ELSE LET pieces == Split(entries[CHOOSE x \in hits : \A y \in hits : y <= x], "=")
             IN  IF Len(pieces) >= 2 THEN Str(pieces[2]) ELSE Undefined

\* the verifier of the earlier variant: split-based parsing, and the two hex
\* texts compared as UTF-8 bytes
verifyTallySignatureEarly(raw, signatureHeader, secret) ==
    IF ~Truthy(signatureHeader) THEN FALSE
    ELSE LET t == HeaderPart(signatureHeader.s, <<"t">>)
             v1 == HeaderPart(signatureHeader.s, <<"v", "1">>)
         IN  IF ~Truthy(t) \/ ~Truthy(v1) THEN FALSE
             ELSE TimingSafeEqualOrFalse(v1.s, HmacSha256Hex(secret, t.s \o <<".">> \o raw))

\* the header the sender builds: "t=T,v1=" + hex(HMAC(secret, T + "." + rawBody))
HeaderPrefix(t) == <<"t", "=">> \o t \o <<",", "v", "1", "=">>
SignedHeader(secret, t, raw) ==
    HeaderPrefix(t) \o HmacSha256Hex(secret, t \o <<".">> \o raw)

(***************************************************************************)
(* State                                                                   *)
(***************************************************************************)
VARIABLES
    ext,    \* extractor specification: the field list and what was extracted from it
    sig,    \* signature specification: body, header, secret and the verdict
    env,    \* process.env: which of the three settings are present
    pc,     \* per request: where its handler invocation stands
    req,    \* per request: method, raw body, tally-signature header, handler file
    loc,    \* per request: the locals of its invocation
    resp,   \* per request: the response sent (status and JSON body)
    calls,  \* per request: the outbound subscriber-API calls it issued, in order
    trace,  \* per request: the steps its invocation has performed, in order
    io      \* per request: what the subscriber API answered it (status, text)

vars == <<ext, sig, env, pc, req, loc, resp, calls, trace, io>>

handlerVars == <<env, pc, req, loc, resp, calls, trace, io>>

\* the values the variables of the other specifications keep
ExtIdle == [phase |-> "idle"]
SigIdle == [phase |-> "idle"]
HandlerIdle ==
    /\ env = [secret |-> FALSE, apiKey |-> FALSE, groupId |-> FALSE]
    /\ pc = <<>>
    /\ req = <<>>
    /\ loc = <<>>
    /\ resp = <<>>
    /\ calls = <<>>
    /\ trace = <<>>
    /\ io = <<>>

(***************************************************************************)
(* The handlers                                                            *)
(***************************************************************************)
Requests == 1..NumRequests

\* JSON documents: objects are records tagged "object", arrays carry their items
Array(items) == [k |-> "array", items |-> items]
SyntaxError  == [k |-> "SyntaxError"]
EmptyObject  == [k |-> "object"]
Payload(fieldsValue) ==
    [k |-> "object", data |-> [k |-> "object", fields |-> fieldsValue]]

FullFields ==
    << Field("INPUT_TEXT",  Str(<<"N", "a", "m", "e">>),      Str(<<" ", "A", "l", " ">>)),
       Field("INPUT_EMAIL", Str(<<"E", "m", "a", "i", "l">>),     Str(<<"a", "@", "b", ".", "c">>)),
       Field("DROPDOWN",    Str(<<"A", "r", "c", "h", "e", "t", "y", "p", "e">>), Str(<<" ", " ">>)),
       Field("CALCULATED_FIELDS", Str(<<"s", "c", "o", "r", "e", "_", "b", "i", "n", "g", "e", "r">>), Num(5)),
       Field("CALCULATED_FIELDS", Str(<<"s", "c", "o", "r", "e", "_", "c", "h", "a", "s", "e", "r">>), Num(5)) >>

NoEmailFields ==
    << Field("INPUT_TEXT",  Str(<<"N", "a", "m", "e">>),  Str(<<"A", "l">>)),
       Field("INPUT_EMAIL", Str(<<"E", "m", "a", "i", "l">>), Str(<<>>)),
       Field("TEXTAREA",    Null,         Str(<<"a", " ", "b", "@", "c", ".", "d">>)),
       Field("CALCULATED_FIELDS", Str(<<"s", "c", "o", "r", "e", "_", "m", "u", "t", "e", "d">>), Num(2)) >>

BlankEmailFields ==
    << Field("INPUT_EMAIL", Str(<<"E", "m", "a", "i", "l">>), Str(<<" ">>)) >>

\* JSON.parse on the raw bodies of the model.  A raw body is abbreviated to a
\* short text; the table gives the document each one denotes.
JSONparse(raw) ==
    CASE raw = <<"a", "b">> -> Payload(Array(FullFields))
      [] raw = <<"a", "a">> -> Payload(Array(NoEmailFields))
      [] raw = <<"b", "b">> -> Payload(Array(BlankEmailFields))
      [] raw = <<"a">>  -> Payload(Str(<<"x">>))
      [] raw = <<"{", "}">> -> EmptyObject
      [] OTHER -> SyntaxError

RawBodies == { <<"a", "b">>, <<"a", "a">>, <<"b", "b">>, <<"a">>, <<"{", "}">>, <<"{">> }

\* v?.name: undefined unless v is an object that has the property
Optional(v, name) ==
    IF v.k = "object" /\ name \in DOMAIN v THEN v[name] ELSE Undefined

\* body?.data?.fields
DataFields(body) == Optional(Optional(body, "data"), "fields")

\* body?.data?.fields || []   (the earlier variant)
FieldListOrEmpty(body) ==
    IF DataFields(body).k = "array" \/ Truthy(DataFields(body))
    THEN DataFields(body) ELSE Array(<<>>)

\* any truthy data.fields is taken as the list
FieldListAnyTruthy(body) == FieldListOrEmpty(body)

\* Array.isArray(body?.data?.fields) ? body.data.fields : []
FieldList(body) ==
    IF DataFields(body).k = "array" THEN DataFields(body) ELSE Array(<<>>)

\* JSON.stringify leaves out properties whose value is undefined or a function
Wire(v) == IF v.k \in {"undefined", "function"} THEN Undefined ELSE v

\* what the sender signs with, and the time stamp it uses
SenderSecret == <<"a">>
OtherSecret  == <<"b">>
Timestamp    == <<"1">>

ApiKey  == Str(<<"k">>)
GroupId == Str(<<"g">>)

Environments ==
    [secret : {Undefined, Str(SenderSecret)},
     apiKey : {Undefined, ApiKey},
     groupId : {Undefined, GroupId}]

\* a request: the handler file it is routed to, its method, its raw body, its
\* tally-signature header, and whether the hosting layer hands req.body over as
\* the raw string or as the parsed document
Request(handler, method, raw, sigHeader, bodyIsString) ==
    [handler |-> handler, method |-> method, raw |-> raw,
     sigHeader |-> sigHeader, bodyIsString |-> bodyIsString]

\* no header, the sender's header, a header signed with another secret
HeadersFor(raw) ==
    { Undefined,
      Str(SignedHeader(SenderSecret, Timestamp, raw)),
      Str(SignedHeader(OtherSecret, Timestamp, raw)) }

\* the requests of the model: every body under the sender's header, one body
\* under no header and under a foreign one, a GET, and the other handlers' cases
RequestPool ==
    {Request("final", "POST", raw, Str(SignedHeader(SenderSecret, Timestamp, raw)), TRUE) :
        raw \in RawBodies}
    \cup {Request("final", "POST", <<"a", "b">>, h, TRUE) : h \in HeadersFor(<<"a", "b">>)}
    \cup {Request(f, "GET", <<"a", "b">>, Undefined, TRUE) :
            f \in {"final", "early", "echo", "echoParse"}}
    \cup {Request("early", "POST", <<"a">>, Str(SignedHeader(SenderSecret, Timestamp, <<"a">>)), TRUE)}
    \cup {Request("echo", "POST", <<"a", "b">>, Undefined, FALSE)}
    \cup {Request("echoParse", "POST", <<"a", "b">>, Undefined, b) : b \in BOOLEAN}
    \cup {Request("echoParse", "POST", <<"{">>, Undefined, TRUE)}

NoLocals ==
    [secret |-> Undefined, email |-> Undefined, firstName |-> Undefined,
     archetype |-> Undefined, group |-> Undefined, status |-> 0, ok |-> FALSE]

NoResponse == [status |-> 0]

NoAnswer == [status |-> 0, text |-> <<>>]

Respond(status, body) == [status |-> status, body |-> body]

Alive == Respond(200, [message |-> "Webhook is live, but use POST"])

\* the slot of a request that has not arrived yet
NoRequest == Request("none", "none", <<>>, Undefined, TRUE)

InitHandler ==
    /\ env \in Environments
    /\ pc = [i \in Requests |-> "new"]
    /\ req = [i \in Requests |-> NoRequest]
    /\ loc = [i \in Requests |-> NoLocals]
    /\ resp = [i \in Requests |-> NoResponse]
    /\ calls = [i \in Requests |-> <<>>]
    /\ trace = [i \in Requests |-> <<>>]
    /\ io = [i \in Requests |-> NoAnswer]
    /\ ext = ExtIdle
    /\ sig = SigIdle

\* every invocation shares one set of locals
SharedSlot(i) == 1

\* the locals of invocation i: const/let inside the async function are per call
Slot(i) == i

\* every method is processed
IsPostAlways(method) == TRUE

\* req.method !== 'POST' is answered at once
IsPost(method) == method = "POST"

\* nothing is rejected
RejectsNever(verified) == FALSE

\* if (!verifyTallySignature(raw, sigHeader, secret)) return 401
Rejects(verified) == ~verified

\* only the API key is looked at
ConfiguredKeyOnly(apiKey, groupId) == Truthy(apiKey)

\* if (!ML_API || !ML_GROUP) return 500
Configured(apiKey, groupId) == Truthy(apiKey) /\ Truthy(groupId)

\* the subscriber-API request: headers and JSON.stringify(payload)
UpsertCall(apiKey, groupId, email, firstName, archetype) ==
    [authorization |-> apiKey,
     payload |-> [email |-> email,
                  fields |-> [name |-> Wire(OrElse(firstName, Undefined)),
                              archetype |-> Wire(OrElse(archetype, Undefined)),
                              source |-> "tally"],
                  groups |-> <<groupId>>,
                  resubscribe |-> TRUE,
                  autoresponders |-> TRUE]]

\* the response is sent and the invocation ends
Finish(i, response, steps) ==
    /\ pc' = [pc EXCEPT ![i] = "done"]
    /\ resp' = [resp EXCEPT ![i] = response]
    /\ trace' = [trace EXCEPT ![i] = @ \o steps]

HandlerError == Respond(400, [ok |-> FALSE, error |-> "Handler error"])

\* req.body as the hosting layer hands it over
ReqBody(r) ==
    IF r.bodyIsString THEN Str(r.raw)
    ELSE IF JSONparse(r.raw) = SyntaxError THEN Undefined
    ELSE JSONparse(r.raw)

\* part_000: answer non-POST, otherwise echo req.body
InvokeEcho(i, r) ==
    /\ r.handler = "echo"
    /\ IF ~IsPost(r.method)
       THEN Finish(i, Alive, <<>>)
       ELSE Finish(i, Respond(200, [ok |-> TRUE, received |-> ReqBody(r)]), <<>>)
    /\ UNCHANGED <<loc, calls>>

\* part_001: answer non-POST, otherwise parse a string body and echo it
InvokeEchoParse(i, r) ==
    /\ r.handler = "echoParse"
    /\ IF ~IsPost(r.method)
       THEN Finish(i, Alive, <<>>)
       ELSE IF r.bodyIsString /\ JSONparse(r.raw) = SyntaxError
       THEN Finish(i, Respond(400, [ok |-> FALSE, error |-> "Invalid JSON"]), <<"parse">>)
       ELSE IF r.bodyIsString
       THEN Finish(i, Respond(200, [ok |-> TRUE, received |-> JSONparse(r.raw)]), <<"parse">>)
       ELSE Finish(i, Respond(200, [ok |-> TRUE, received |-> ReqBody(r)]), <<>>)
    /\ UNCHANGED <<loc, calls>>

\* tally-webhook.js, lines 195-210: up to the first await
InvokeFinal(i, r) ==
    /\ r.handler = "final"
    /\ IF ~IsPost(r.method)
       THEN Finish(i, Alive, <<>>) /\ UNCHANGED loc
       ELSE IF ~Truthy(env.secret)
       THEN /\ Finish(i, Respond(500, [error |-> "Server not configured"]), <<>>)
            /\ UNCHANGED loc
       ELSE /\ pc' = [pc EXCEPT ![i] = "readBody"]
            /\ loc' = [loc EXCEPT ![Slot(i)] = [NoLocals EXCEPT !.secret = env.secret]]
            /\ trace' = [trace EXCEPT ![i] = @ \o <<"read">>]
            /\ UNCHANGED resp
    /\ UNCHANGED calls

\* tally-webhook.js, lines 4-14: the earlier variant up to its first await
InvokeEarly(i, r) ==
    /\ r.handler = "early"
    /\ IF ~IsPost(r.method)
       THEN Finish(i, Alive, <<>>) /\ UNCHANGED loc
       ELSE /\ pc' = [pc EXCEPT ![i] = "readBody"]
            /\ loc' = [loc EXCEPT ![Slot(i)] = [NoLocals EXCEPT !.secret = env.secret]]
            /\ trace' = [trace EXCEPT ![i] = @ \o <<"read">>]
            /\ UNCHANGED resp
    /\ UNCHANGED calls

\* a request arrives and its handler runs up to its first suspension point;
\* requests are numbered in their order of arrival
Invoke(i) ==
    /\ pc[i] = "new"
    /\ IF i = 1 THEN TRUE ELSE pc[i - 1] # "new"
    /\ \E r \in RequestPool :
          /\ req' = [req EXCEPT ![i] = r]
          /\ \/ InvokeEcho(i, r)
             \/ InvokeEchoParse(i, r)
             \/ InvokeFinal(i, r)
             \/ InvokeEarly(i, r)
    /\ UNCHANGED <<env, io, ext, sig>>

\* readRawBody rejects (the request stream errors): the catch answers 400
BodyFails(i) ==
    /\ pc[i] = "readBody"
    /\ Finish(i, HandlerError, <<"readError">>)
    /\ UNCHANGED <<env, req, loc, calls, io, ext, sig>>

\* readRawBody resolves; lines 211-267 run up to the await of fetch
BodyArrives(i) ==
    /\ pc[i] = "readBody"
    /\ req[i].handler = "final"
    /\ LET raw == req[i].raw
           verified == verifyTallySignature(raw, req[i].sigHeader, loc[Slot(i)].secret.s)
           body == JSONparse(raw)
           fields == FieldList(body)
           email == getEmail(fields.items)
           firstName == getFirstName(fields.items)
           archetype == ResolveArchetype(fields.items)
           extracted == [loc[Slot(i)] EXCEPT !.email = email, !.firstName = firstName,
                                             !.archetype = archetype]
       IN  IF Rejects(verified)
           THEN /\ Finish(i, Respond(401, [error |-> "Invalid signature"]), <<"verify:false">>)
                /\ UNCHANGED <<loc, calls>>
           ELSE IF body = SyntaxError
           THEN /\ Finish(i, HandlerError,
                          <<IF verified THEN "verify:true" ELSE "verify:false", "parse:throws">>)
                /\ UNCHANGED <<loc, calls>>
           ELSE IF fields.k # "array"
           THEN /\ Finish(i, HandlerError,
                          <<IF verified THEN "verify:true" ELSE "verify:false",
                            "parse", "extract:throws">>)
                /\ UNCHANGED <<loc, calls>>
           ELSE IF ~Truthy(email)
           THEN /\ Finish(i, Respond(200, [ok |-> FALSE, reason |-> "missing_email",
                                           archetype |-> Wire(archetype)]),
                          <<IF verified THEN "verify:true" ELSE "verify:false",
                            "parse", "extract">>)
                /\ loc' = [loc EXCEPT ![Slot(i)] = extracted]
                /\ UNCHANGED calls
           ELSE IF ~Configured(env.apiKey, env.groupId)
           THEN /\ Finish(i, Respond(500, [ok |-> FALSE, error |-> "MailerLite not configured"]),
                          <<IF verified THEN "verify:true" ELSE "verify:false",
                            "parse", "extract">>)
                /\ loc' = [loc EXCEPT ![Slot(i)] = extracted]
                /\ UNCHANGED calls
           ELSE /\ pc' = [pc EXCEPT ![i] = "fetch"]
                /\ loc' = [loc EXCEPT ![Slot(i)] = [extracted EXCEPT !.group = env.groupId]]
                /\ calls' = [calls EXCEPT ![i] =
                                @ \o <<UpsertCall(env.apiKey, env.groupId, email,
                                                  firstName, archetype)>>]
                /\ trace' = [trace EXCEPT ![i] =
                                @ \o <<IF verified THEN "verify:true" ELSE "verify:false",
                                       "parse", "extract", "call">>]
                /\ UNCHANGED resp
    /\ UNCHANGED <<env, req, io, ext, sig>>

\* readRawBody resolves in the earlier variant; lines 15-71 run up to the await
\* of fetch: the secret is checked only now, and any truthy data.fields is used
BodyArrivesEarly(i) ==
    /\ pc[i] = "readBody"
    /\ req[i].handler = "early"
    /\ LET raw == req[i].raw
           secret == loc[Slot(i)].secret
           verified == verifyTallySignatureEarly(raw, req[i].sigHeader, secret.s)
           body == JSONparse(raw)
           fields == FieldListOrEmpty(body)
           email == getEmail(fields.items)
           firstName == getFirstName(fields.items)
           archetype == ResolveArchetypeEarly(fields.items)
           extracted == [loc[Slot(i)] EXCEPT !.email = email, !.firstName = firstName,
                                             !.archetype = archetype]
       IN  IF ~Truthy(secret)
           THEN /\ Finish(i, Respond(500, [error |-> "Server not configured"]), <<>>)
                /\ UNCHANGED <<loc, calls>>
           ELSE IF Rejects(verified)
           THEN /\ Finish(i, Respond(401, [error |-> "Invalid signature"]), <<"verify:false">>)
                /\ UNCHANGED <<loc, calls>>
           ELSE IF body = SyntaxError
           THEN /\ Finish(i, HandlerError,
                          <<IF verified THEN "verify:true" ELSE "verify:false", "parse:throws">>)
                /\ UNCHANGED <<loc, calls>>
           ELSE IF fields.k # "array"
           THEN /\ Finish(i, HandlerError,
                          <<IF verified THEN "verify:true" ELSE "verify:false",
                            "parse", "extract:throws">>)
                /\ UNCHANGED <<loc, calls>>
           ELSE IF ~Truthy(email)
           THEN /\ Finish(i, Respond(200, [ok |-> FALSE, reason |-> "missing_email",
                                           archetype |-> Wire(archetype)]),
                          <<IF verified THEN "verify:true" ELSE "verify:false",
                            "parse", "extract">>)
                /\ loc' = [loc EXCEPT ![Slot(i)] = extracted]
                /\ UNCHANGED calls
           ELSE IF ~Configured(env.apiKey, env.groupId)
           THEN /\ Finish(i, Respond(500, [ok |-> FALSE, error |-> "MailerLite not configured"]),
                          <<IF verified THEN "verify:true" ELSE "verify:false",
                            "parse", "extract">>)
                /\ loc' = [loc EXCEPT ![Slot(i)] = extracted]
                /\ UNCHANGED calls
           ELSE /\ pc' = [pc EXCEPT ![i] = "fetch"]
                /\ loc' = [loc EXCEPT ![Slot(i)] = [extracted EXCEPT !.group = env.groupId]]
                /\ calls' = [calls EXCEPT ![i] =
                                @ \o <<UpsertCall(env.apiKey, env.groupId, email,
                                                  firstName, archetype)>>]
                /\ trace' = [trace EXCEPT ![i] =
                                @ \o <<IF verified THEN "verify:true" ELSE "verify:false",
                                       "parse", "extract", "call">>]
                /\ UNCHANGED resp
    /\ UNCHANGED <<env, req, io, ext, sig>>

\* the statuses the subscriber API answers with in the model
FetchStatuses == {200, 422}

\* fetch resolves with a response; the handler awaits its text
FetchResolves(i) ==
    /\ pc[i] = "fetch"
    /\ \E status \in FetchStatuses :
          /\ loc' = [loc EXCEPT ![Slot(i)].status = status,
                                ![Slot(i)].ok = (status >= 200 /\ status <= 299)]
          /\ io' = [io EXCEPT ![i].status = status]
    /\ pc' = [pc EXCEPT ![i] = "text"]
    /\ trace' = [trace EXCEPT ![i] = @ \o <<"resolved">>]
    /\ UNCHANGED <<env, req, resp, calls, ext, sig>>

\* fetch rejects (the call itself fails): the catch answers 400
FetchRejects(i) ==
    /\ pc[i] = "fetch"
    /\ Finish(i, HandlerError, <<"rejected">>)
    /\ UNCHANGED <<env, req, loc, calls, io, ext, sig>>

\* lines 270-282: data from the text, then the answer
Answer(i, text) ==
    LET data == IF text = <<>> THEN EmptyObject
                ELSE IF JSONparse(text) = SyntaxError THEN [k |-> "object", raw |-> Str(text)]
                ELSE JSONparse(text)
        l == loc[Slot(i)]
    IN  IF ~l.ok
        THEN Respond(200, [ok |-> FALSE, mailerlite_status |-> l.status, error |-> data])
        ELSE Respond(200, [ok |-> TRUE,
                           subscribed |-> [email |-> l.email, group |-> l.group],
                           mailerlite |-> data])

\* the texts a subscriber-API response carries in the model: JSON and not JSON
ResponseTexts == { <<"{", "}">>, <<"{">> }

\* mlRes.text() resolves
TextArrives(i) ==
    /\ pc[i] = "text"
    /\ \E text \in ResponseTexts :
          /\ Finish(i, Answer(i, text), <<"text">>)
          /\ io' = [io EXCEPT ![i].text = text]
    /\ UNCHANGED <<env, req, loc, calls, ext, sig>>

\* mlRes.text() rejects: .catch(() => '')
TextFails(i) ==
    /\ pc[i] = "text"
    /\ Finish(i, Answer(i, <<>>), <<"text:caught">>)
    /\ UNCHANGED <<env, req, loc, calls, io, ext, sig>>

Next ==
    \E i \in Requests :
        \/ Invoke(i)
        \/ BodyFails(i)
        \/ BodyArrives(i)
        \/ BodyArrivesEarly(i)
        \/ FetchResolves(i)
        \/ FetchRejects(i)
        \/ TextArrives(i)
        \/ TextFails(i)

Spec == InitHandler /\ [][Next]_vars

(***************************************************************************)
(* The extractor on bounded field lists                                    *)
(***************************************************************************)
\* fields that exercise the four email rules
EmailFieldPool ==
    { Field("INPUT_TEXT",  Str(<<"C", "o", "n", "t", "a", "c", "t">>),         Str(<<"a", "@", "b", ".", "c">>)),
      Field("INPUT_EMAIL", Null,                   Str(<<" ", "c", "@", "d", ".", "e", " ">>)),
      Field("INPUT_TEXT",  Str(<<"M", "y", " ", "E", "M", "A", "I", "L">>),        Str(<<"x">>)),
      Field("INPUT_TEXT",  Str(<<"E", "m", "a", "i", "l">>),           Str(<<>>)),
      Field("PAYMENT",     Str(<<"P", "a", "y", "m", "e", "n", "t", " ", "(", "e", "m", "a", "i", "l", ")">>), Str(<<"p", "@", "q", ".", "r">>)),
      Field("PAYMENT",     Str(<<"P", "a", "y">>),             Str(<<"z", "@", "z", ".", "z">>)),
      Field("INPUT_EMAIL", Str(<<"E">>),               Null),
      Field("TEXTAREA",    Null,                   Str(<<"a", " ", "b", "@", "c", ".", "d">>)),
      Field("INPUT_NUMBER", Str(<<"e", "m", "a", "i", "l">>),          Num(7)) }

\* fields that exercise the archetype labels and the score map
ArchetypeFieldPool ==
    { Field("INPUT_TEXT", Str(<<"A", "r", "c", "h", "e", "t", "y", "p", "e">>), Str(<<" ", "A", " ">>)),
      Field("INPUT_TEXT", Str(<<"A", "r", "c", "h", "e", "t", "y", "p", "e">>), Str(<<>>)),
      Field("DROPDOWN",   Str(<<"T", "Y", "P", "E">>),      Str(<<" ", " ">>)),
      Field("DROPDOWN",   Str(<<"T", "y", "p", "e">>),      Str(<<"T">>)),
      Field("INPUT_TEXT", Str(<<"r", "e", "s", "u", "l", "t">>),    Num(3)),
      Field("CALCULATED_FIELDS", Str(<<"s", "c", "o", "r", "e", "_", "b", "i", "n", "g", "e", "r">>), Num(5)),
      Field("CALCULATED_FIELDS", Str(<<"s", "c", "o", "r", "e", "_", "c", "h", "a", "s", "e", "r">>), Num(5)),
      Field("CALCULATED_FIELDS", Str(<<"S", "c", "o", "r", "e", "_", "M", "u", "t", "e", "d">>),  Num(6)),
      Field("CALCULATED_FIELDS", Str(<<"s", "c", "o", "r", "e", "_", "n", "o", "n", "e">>),   Num(-1)),
      Field("CALCULATED_FIELDS", Str(<<"s", "c", "o", "r", "e", "_", "o", "t", "h", "e", "r">>),  Num(9)),
      Field("CALCULATED_FIELDS", Str(<<"c", "o", "n", "s", "t", "r", "u", "c", "t", "o", "r">>),  Num(9)),
      Field("CALCULATED_FIELDS", Str(<<"s", "c", "o", "r", "e", "_", "j", "u", "g", "g", "l", "e", "r">>), Str(<<"9">>)),
      Field("INPUT_NUMBER",      Str(<<"s", "c", "o", "r", "e", "_", "s", "c", "r", "o", "l", "l", "e", "r">>), Num(9)) }

ListsOver(pool) == UNION {[1..n -> pool] : n \in 0..MaxFields}

InitEmail ==
    /\ ext \in {[phase |-> "input", fields |-> fs] : fs \in ListsOver(EmailFieldPool)}
    /\ sig = SigIdle
    /\ HandlerIdle

\* const email = getEmail(fields)
ExtractEmail ==
    /\ ext.phase = "input"
    /\ ext' = [phase |-> "extracted",
               fields |-> ext.fields,
               email |-> getEmail(ext.fields)]
    /\ UNCHANGED <<sig, handlerVars>>

SpecEmail == InitEmail /\ [][ExtractEmail]_vars

InitArchetype ==
    /\ ext \in {[phase |-> "input", fields |-> fs] : fs \in ListsOver(ArchetypeFieldPool)}
    /\ sig = SigIdle
    /\ HandlerIdle

\* let archetype = getArchetype(fields) || computeArchetypeFromScores(fields)
ExtractArchetype ==
    /\ ext.phase = "input"
    /\ ext' = [phase |-> "extracted",
               fields |-> ext.fields,
               score |-> computeArchetypeFromScores(ext.fields),
               scoreEarly |-> computeArchetypeFromScoresEarly(ext.fields),
               archetype |-> ResolveArchetype(ext.fields)]
    /\ UNCHANGED <<sig, handlerVars>>

SpecArchetype == InitArchetype /\ [][ExtractArchetype]_vars

(***************************************************************************)
(* The verifier on signed and then tampered inputs                         *)
(***************************************************************************)
BodyChars == {"a", "b", "{"}
RawPool == UNION {[1..n -> BodyChars] : n \in 0..MaxRawLen}
TimestampPool == { <<"1">>, <<"2", "1">> }
SecretPool == { <<"a">>, <<"b">> }
\* what a tampered v1 character may become
TamperChars == {HexChars[i] : i \in 1..16} \cup {"A", "B", "C", "D", "E", "F", "z"}

Signed(secret, t, raw) ==
    [phase |-> "signed", raw |-> raw, t |-> t, secret |-> secret,
     header |-> SignedHeader(secret, t, raw),
     ok |-> verifyTallySignature(raw, Str(SignedHeader(secret, t, raw)), secret)]

InitVerify ==
    /\ sig \in {Signed(k, t, raw) : k \in SecretPool, t \in TimestampPool, raw \in RawPool}
    /\ ext = ExtIdle
    /\ HandlerIdle

Tampered(kind, raw, header, secret) ==
    [phase |-> "tampered", kind |-> kind, raw |-> raw, t |-> sig.t, secret |-> secret,
     header |-> header, wasOk |-> sig.ok,
     ok |-> verifyTallySignature(raw, Str(header), secret)]

\* one byte of the raw body is changed
TamperBody ==
    /\ sig.phase = "signed"
    /\ \E i \in 1..Len(sig.raw) : \E c \in BodyChars \ {sig.raw[i]} :
          sig' = Tampered("body", [sig.raw EXCEPT ![i] = c], sig.header, sig.secret)
    /\ UNCHANGED <<ext, handlerVars>>

\* one character of the header's v1 value is replaced
TamperV1Replace ==
    /\ sig.phase = "signed"
    /\ \E i \in (Len(HeaderPrefix(sig.t)) + 1)..Len(sig.header) :
          \E c \in TamperChars \ {sig.header[i]} :
             sig' = Tampered("replace", sig.raw, [sig.header EXCEPT ![i] = c], sig.secret)
    /\ UNCHANGED <<ext, handlerVars>>

\* one character is appended to the header's v1 value
TamperV1Append ==
    /\ sig.phase = "signed"
    /\ \E c \in TamperChars :
          sig' = Tampered("append", sig.raw, sig.header \o <<c>>, sig.secret)
    /\ UNCHANGED <<ext, handlerVars>>

\* the receiver verifies with another secret
TamperSecret ==
    /\ sig.phase = "signed"
    /\ \E k \in SecretPool \ {sig.secret} :
          sig' = Tampered("secret", sig.raw, sig.header, k)
    /\ UNCHANGED <<ext, handlerVars>>

NextVerify == TamperBody \/ TamperV1Replace \/ TamperV1Append \/ TamperSecret

SpecVerify == InitVerify /\ [][NextVerify]_vars

(***************************************************************************)
(* Claims about the extractor                                              *)
(***************************************************************************)
\* the four email rules as the claim words them: only rule 1 asks for a value
EmailRuleAsWorded(r, f) ==
    CASE r = 1 -> f.type = "INPUT_EMAIL" /\ Truthy(f.value)
      [] r = 2 -> LabelHasEmail(f)
      [] r = 3 -> f.type = "PAYMENT" /\ LabelHasEmail(f)
      [] r = 4 -> /\ f.type \in {"INPUT_TEXT", "TEXTAREA"}
                  /\ f.value.k = "string"
                  /\ EmailPattern(f.value.s)

\* the same rules, rules 2 and 3 asking for a non-empty value as rule 1 does
EmailRuleWithValue(r, f) ==
    /\ EmailRuleAsWorded(r, f)
    /\ r \in {2, 3} => Truthy(f.value)

\* the trimmed value of the first field matching the highest-priority rule that
\* has any match, null when no rule matches
ByPriority(fields, Rule(_, _)) ==
    LET matched == {r \in 1..4 : \E i \in 1..Len(fields) : Rule(r, fields[i])}
    IN  IF matched = {} THEN Null
        ELSE LET best == CHOOSE r \in matched : \A q \in matched : r <= q
                 first == CHOOSE i \in 1..Len(fields) :
                             /\ Rule(best, fields[i])
                             /\ \A j \in 1..(i - 1) : ~Rule(best, fields[j])
             IN  Str(trim(String(fields[first].value)))

\* C8 as stated: getEmail returns the trimmed value of the first field matching the
\* highest-priority rule among (1) INPUT_EMAIL with a non-empty value, (2) label
\* containing "email", (3) PAYMENT field with such a label, (4) text field whose
\* value looks like an address; null when none matches.
C8_EmailPriorityAsWorded ==
    ext.phase = "extracted" => ext.email = ByPriority(ext.fields, EmailRuleAsWorded)

\* C8 amended: the same, with rules 2 and 3 matching only fields whose value is
\* non-empty: a labelled field with an empty value is passed over.
C8_EmailPriority ==
    ext.phase = "extracted" => ext.email = ByPriority(ext.fields, EmailRuleWithValue)

\* a typed email field wins over a text-pattern field that comes before it
C8_Witness ==
    /\ ext.phase = "extracted"
    /\ Len(ext.fields) >= 2
    /\ EmailRuleWithValue(4, ext.fields[1])
    /\ \A r \in 1..3 : ~EmailRuleWithValue(r, ext.fields[1])
    /\ EmailRuleWithValue(1, ext.fields[2])
    /\ ext.email = Str(trim(String(ext.fields[2].value)))
    /\ ext.email # Str(trim(String(ext.fields[1].value)))

\* the qualifying fields of the scoring fallback, as the claim words them
IsScoreKey(label) == \E i \in 1..Len(ScoreKeys) : ScoreKeys[i] = label

Qualifies(f) ==
    /\ f.type = "CALCULATED_FIELDS"
    /\ f.value.k = "number"
    /\ IsScoreKey(toLowerCase(LabelOrEmpty(f)))

DisplayNameOf(label) ==
    Str(ScoreNames[CHOOSE i \in 1..Len(ScoreKeys) : ScoreKeys[i] = label])

\* the display name of the first qualifying field attaining the greatest value
FirstGreatest(fields) ==
    LET q == {i \in 1..Len(fields) : Qualifies(fields[i])}
    IN  IF q = {} THEN Undefined
        ELSE LET w == CHOOSE i \in q :
                        /\ \A j \in q : fields[j].value.n <= fields[i].value.n
                        /\ \A j \in q : j < i => fields[j].value.n < fields[i].value.n
             IN  DisplayNameOf(toLowerCase(LabelOrEmpty(fields[w])))

\* C9 as stated: computeArchetypeFromScores returns the display name of the first
\* qualifying field attaining the greatest value, undefined when none qualifies; a
\* field whose label is not one of the eight keys never affects the result, which
\* is always undefined or one of the eight display names.
C9_ScoreFallback ==
    ext.phase = "extracted" =>
        /\ ext.score = FirstGreatest(ext.fields)
        /\ ext.score \in DisplayNames \cup {Undefined}

\* the first field, in list order, matching the earliest of the three labels that
\* any field matches with a non-empty value; 0 when no field matches
ArchetypeField(fields) ==
    LET hit(k, f) == /\ toLowerCase(LabelOrEmpty(f)) = toLowerCase(ArchetypeLabels[k])
                     /\ Truthy(f.value)
        ks == {k \in 1..3 : \E i \in 1..Len(fields) : hit(k, fields[i])}
    IN  IF ks = {} THEN 0
        ELSE LET k == CHOOSE x \in ks : \A y \in ks : x <= y
             IN  CHOOSE i \in 1..Len(fields) :
                    hit(k, fields[i]) /\ \A j \in 1..(i - 1) : ~hit(k, fields[j])

\* C10 as stated: when some field carries one of the labels Archetype, Type, Result
\* with a non-empty value, the resolved archetype is the trimmed value of the first
\* field matching the earliest such label and the scores are not consulted; the
\* scoring fallback decides only when no field matches.
C10_ArchetypeAsWorded ==
    ext.phase = "extracted" =>
        LET a == ArchetypeField(ext.fields)
        IN  IF a # 0
            THEN ext.archetype = Str(trim(String(ext.fields[a].value)))
            ELSE ext.archetype = ext.score

\* C10 amended: the labelled field decides when its trimmed value is not empty;
\* the scoring fallback decides when no field matches or the matched value trims
\* to the empty string.
C10_Archetype ==
    ext.phase = "extracted" =>
        LET a == ArchetypeField(ext.fields)
        IN  IF a # 0 /\ trim(String(ext.fields[a].value)) # <<>>
            THEN ext.archetype = Str(trim(String(ext.fields[a].value)))
            ELSE ext.archetype = ext.score

\* a labelled field decides although a score field is present, and it is the
\* earlier label that wins, not the earlier field
C10_Witness ==
    /\ ext.phase = "extracted"
    /\ ArchetypeField(ext.fields) > 1
    /\ \E i \in 1..Len(ext.fields) : Qualifies(ext.fields[i])
    /\ Truthy(ext.score)
    /\ ext.archetype = Str(trim(String(ext.fields[ArchetypeField(ext.fields)].value)))
    /\ ext.archetype # ext.score
    /\ getArchetypeByPosition(ext.fields) # ext.archetype

(***************************************************************************)
(* Claims about the verifier                                               *)
(***************************************************************************)
\* C5 as stated: when the header built from (T, rawBody, secret) verifies, changing
\* one byte of rawBody, or one character of the header's v1 value (replacing it,
\* changing its letter case, appending one), or verifying with another secret,
\* makes the result false.
C5_TamperSensitivity ==
    (sig.phase = "tampered" /\ sig.wasOk) => ~sig.ok

\* what holds of the verifier: the header as built verifies, and a changed body
\* byte or another secret is rejected
C5_BodyAndSecret ==
    /\ sig.phase = "signed" => sig.ok
    /\ (sig.phase = "tampered" /\ sig.kind \in {"body", "secret"}) => ~sig.ok

(***************************************************************************)
(* Claims about the handler                                                *)
(***************************************************************************)
Did(i, step) == \E k \in 1..Len(trace[i]) : trace[i][k] = step

\* the steps that use the body: parsing it, extracting from it, calling out
UsesBody == {"parse", "parse:throws", "extract", "extract:throws", "call"}

UsedBody(i) == \E k \in 1..Len(trace[i]) : trace[i][k] \in UsesBody

IsFinalPost(i) == req[i].handler = "final" /\ req[i].method = "POST"

\* C1: a POST whose signature check returns false (the secret being configured) is
\* answered 401, and its body is never parsed, nothing is extracted from it and no
\* outbound call is issued; every parse, extraction and outbound call of a request
\* comes after that request's signature check returned true.
C1_VerifyBeforeUse ==
    \A i \in Requests :
        IsFinalPost(i) =>
            /\ \A k \in 1..Len(trace[i]) :
                  trace[i][k] \in UsesBody =>
                      \E j \in 1..(k - 1) : trace[i][j] = "verify:true"
            /\ Did(i, "verify:false") =>
                  /\ pc[i] = "done"
                  /\ resp[i] = Respond(401, [error |-> "Invalid signature"])
                  /\ ~UsedBody(i)
                  /\ calls[i] = <<>>

\* a request was rejected for its signature while another one, verified, went on
\* to parse, extract and call out
C1_Witness ==
    \E i, j \in Requests :
        /\ IsFinalPost(i) /\ Did(i, "verify:false") /\ resp[i].status = 401
        /\ req[i].sigHeader # Undefined
        /\ IsFinalPost(j) /\ Did(j, "verify:true") /\ Did(j, "call")

\* no field of the list is email-like under any of the four rules
NoEmailLike(fields) ==
    \A k \in 1..Len(fields) : \A r \in 1..4 : ~EmailRuleWithValue(r, fields[k])

\* the field list of a parsed body as claim C3 takes it: data.fields when it is
\* an array, the empty list otherwise
FieldsAsClaimed(body) ==
    IF DataFields(body).k = "array" THEN DataFields(body).items ELSE <<>>

\* the verifier, the field list and the archetype expression of a handler variant
VerifiedBy(r, secret) ==
    IF r.handler = "early"
    THEN verifyTallySignatureEarly(r.raw, r.sigHeader, secret)
    ELSE verifyTallySignature(r.raw, r.sigHeader, secret)

FieldsOf(r) ==
    IF r.handler = "early"
    THEN FieldListOrEmpty(JSONparse(r.raw))
    ELSE FieldList(JSONparse(r.raw))

ArchetypeOf(r) ==
    IF r.handler = "early"
    THEN ResolveArchetypeEarly(FieldsOf(r).items)
    ELSE ResolveArchetype(FieldsOf(r).items)

\* what the handler of request r finds in it: whether its signature verifies under
\* the sender's secret (the one secret the environments configure), whether its
\* body parses, whether the field list can be searched, and what is extracted
Facts(r) ==
    LET parsed == JSONparse(r.raw) # SyntaxError
        listed == parsed /\ FieldsOf(r).k = "array"
    IN  [verified |-> VerifiedBy(r, SenderSecret),
         parsed |-> parsed,
         listed |-> listed,
         fieldsKind |-> IF parsed THEN DataFields(JSONparse(r.raw)).k ELSE "none",
         noEmailLike |-> parsed /\ NoEmailLike(FieldsAsClaimed(JSONparse(r.raw))),
         email |-> IF listed THEN getEmail(FieldsOf(r).items) ELSE Null,
         firstName |-> IF listed THEN getFirstName(FieldsOf(r).items) ELSE Undefined,
         archetype |-> IF listed THEN ArchetypeOf(r) ELSE Undefined]

\* the same for every request of the model, computed once
PoolFacts == [r \in RequestPool \cup {NoRequest} |-> Facts(r)]

FactsOf(r) == PoolFacts[r]

MissingEmail(body) ==
    /\ "reason" \in DOMAIN body
    /\ body.ok = FALSE
    /\ body.reason = "missing_email"

\* C2 as stated: a POST handled while the signing secret is unset ends with 500 and
\* without verification, parse, extraction or call; a POST with a verified
\* signature handled while the API key or the group id is unset ends with 500 and
\* no outbound call, whatever its fields hold.
C2_MisconfigurationAsWorded ==
    \A i \in Requests :
        (IsFinalPost(i) /\ pc[i] = "done") =>
            /\ ~Truthy(env.secret) =>
                  resp[i].status = 500 /\ trace[i] = <<>> /\ calls[i] = <<>>
            /\ (Did(i, "verify:true") /\ ~(Truthy(env.apiKey) /\ Truthy(env.groupId))) =>
                  resp[i].status = 500 /\ calls[i] = <<>>

\* C2 amended: the first half as stated; a verified POST handled while the API key
\* or the group id is unset never issues an outbound call, and ends with 500 when
\* its body parses and yields a non-empty email, with 400 when the body does not
\* parse, and with 200 missing_email when no non-empty email is found.
C2_Misconfiguration ==
    \A i \in Requests :
        IsFinalPost(i) =>
            /\ (pc[i] = "done" /\ ~Truthy(env.secret)) =>
                  resp[i].status = 500 /\ trace[i] = <<>> /\ calls[i] = <<>>
            /\ ~(Truthy(env.apiKey) /\ Truthy(env.groupId)) => calls[i] = <<>>
            /\ (/\ pc[i] = "done"
                /\ Did(i, "verify:true")
                /\ ~(Truthy(env.apiKey) /\ Truthy(env.groupId))) =>
                  IF ~FactsOf(req[i]).parsed
                  THEN resp[i].status = 400
                  ELSE IF Truthy(FactsOf(req[i]).email)
                  THEN resp[i] = Respond(500, [ok |-> FALSE,
                                               error |-> "MailerLite not configured"])
                  ELSE resp[i].status = 200 /\ MissingEmail(resp[i].body)

\* a verified request with an email met a missing group id and was answered 500
C2_Witness ==
    /\ Truthy(env.secret) /\ Truthy(env.apiKey) /\ ~Truthy(env.groupId)
    /\ \E i \in Requests :
             /\ IsFinalPost(i) /\ pc[i] = "done" /\ Did(i, "verify:true")
             /\ Truthy(FactsOf(req[i]).email)
             /\ resp[i].status = 500
             /\ calls[i] = <<>>

\* C3: a verified POST whose body parses and whose field list (empty when
\* data.fields is missing or not an array) has no email-like entry is answered 200
\* with {ok:false, reason:'missing_email'}, the extractor having returned null, and
\* issues no outbound call.
C3_MissingEmail ==
    \A i \in Requests :
        (/\ IsFinalPost(i)
         /\ Did(i, "verify:true")
         /\ FactsOf(req[i]).parsed
         /\ FactsOf(req[i]).noEmailLike) =>
            /\ pc[i] = "done"
            /\ resp[i].status = 200
            /\ MissingEmail(resp[i].body)
            /\ loc[i].email = Null
            /\ calls[i] = <<>>

\* the case happened for a body whose data.fields is not an array and for one
\* whose fields carry an empty email field and a text that is no address
C3_Witness ==
    \E i, j \in Requests :
        /\ IsFinalPost(i) /\ Did(i, "verify:true") /\ pc[i] = "done"
        /\ FactsOf(req[i]).fieldsKind = "string"
        /\ MissingEmail(resp[i].body)
        /\ IsFinalPost(j) /\ Did(j, "verify:true") /\ pc[j] = "done"
        /\ req[j].raw = <<"a", "a">>
        /\ MissingEmail(resp[j].body)

\* the outbound call of request i failed: a non-success status, or a rejection
CallFailed(i) ==
    \/ Did(i, "rejected")
    \/ Did(i, "resolved") /\ ~(io[i].status >= 200 /\ io[i].status <= 299)

\* C4: when the outbound call of a verified request with an email fails (a
\* non-success status, or the call itself fails), the handler answers 200 with
\* ok:false and the failure details, never a non-2xx status; and a request issues
\* at most one outbound call.
C4_DownstreamFailure ==
    \A i \in Requests :
        /\ Len(calls[i]) <= 1
        /\ (IsFinalPost(i) /\ pc[i] = "done" /\ CallFailed(i)) =>
              /\ resp[i].status = 200
              /\ resp[i].body.ok = FALSE

\* the answer request r gets, and the calls it issues, when it is handled alone
\* under environment e: t are the steps taken (they tell which of the awaited
\* operations failed) and a is what the subscriber API answered
DataOf(text) ==
    IF text = <<>> THEN EmptyObject
    ELSE IF JSONparse(text) = SyntaxError THEN [k |-> "object", raw |-> Str(text)]
    ELSE JSONparse(text)

Has(t, step) == \E k \in 1..Len(t) : t[k] = step

\* request r gets as far as the extraction, which succeeds
Extracts(r, e, t) ==
    /\ r.handler \in {"final", "early"} /\ r.method = "POST"
    /\ Truthy(e.secret)
    /\ ~Has(t, "readError")
    /\ FactsOf(r).verified
    /\ FactsOf(r).listed

CallsAlone(r, e, t) ==
    IF /\ Extracts(r, e, t)
       /\ Truthy(FactsOf(r).email)
       /\ Truthy(e.apiKey) /\ Truthy(e.groupId)
    THEN <<UpsertCall(e.apiKey, e.groupId, FactsOf(r).email,
                      FactsOf(r).firstName, FactsOf(r).archetype)>>
    ELSE <<>>

\* the answer once the fields are extracted, the same in both variants
AfterExtraction(r, e, t, a) ==
    LET email == FactsOf(r).email
    IN  IF ~Truthy(email)
        THEN Respond(200, [ok |-> FALSE, reason |-> "missing_email",
                           archetype |-> Wire(FactsOf(r).archetype)])
        ELSE IF ~(Truthy(e.apiKey) /\ Truthy(e.groupId))
        THEN Respond(500, [ok |-> FALSE, error |-> "MailerLite not configured"])
        ELSE IF Has(t, "rejected") THEN HandlerError
        ELSE IF ~(a.status >= 200 /\ a.status <= 299)
        THEN Respond(200, [ok |-> FALSE, mailerlite_status |-> a.status,
                           error |-> DataOf(a.text)])
        ELSE Respond(200, [ok |-> TRUE,
                           subscribed |-> [email |-> email, group |-> e.groupId],
                           mailerlite |-> DataOf(a.text)])

FinalAlone(r, e, t, a) ==
    IF ~Truthy(e.secret) THEN Respond(500, [error |-> "Server not configured"])
    ELSE IF Has(t, "readError") THEN HandlerError
    ELSE IF ~FactsOf(r).verified THEN Respond(401, [error |-> "Invalid signature"])
    ELSE IF ~Extracts(r, e, t) THEN HandlerError
    ELSE AfterExtraction(r, e, t, a)

\* the earlier variant reads the body before it looks at the secret
EarlyAlone(r, e, t, a) ==
    IF Has(t, "readError") THEN HandlerError
    ELSE IF ~Truthy(e.secret) THEN Respond(500, [error |-> "Server not configured"])
    ELSE IF ~FactsOf(r).verified THEN Respond(401, [error |-> "Invalid signature"])
    ELSE IF ~Extracts(r, e, t) THEN HandlerError
    ELSE AfterExtraction(r, e, t, a)

HandledAlone(r, e, t, a) ==
    IF r.method # "POST" THEN Alive
    ELSE IF r.handler = "final" THEN FinalAlone(r, e, t, a)
    ELSE IF r.handler = "early" THEN EarlyAlone(r, e, t, a)
    ELSE IF r.handler = "echoParse" /\ r.bodyIsString
    THEN IF JSONparse(r.raw) = SyntaxError
         THEN Respond(400, [ok |-> FALSE, error |-> "Invalid JSON"])
         ELSE Respond(200, [ok |-> TRUE, received |-> JSONparse(r.raw)])
    ELSE Respond(200, [ok |-> TRUE, received |-> ReqBody(r)])

\* C6: requests do not interfere.  Each request's answer and outbound call are
\* those it produces when handled alone under the same environment, whatever the
\* other requests do in between; and two handlings of the same verified payload
\* issue one call each, with identical payloads.
C6_Independence ==
    /\ \A i \in Requests :
          /\ pc[i] \in {"fetch", "text", "done"} => calls[i] = CallsAlone(req[i], env, trace[i])
          /\ pc[i] = "done" => resp[i] = HandledAlone(req[i], env, trace[i], io[i])
    /\ \A i, j \in Requests :
          (/\ i # j
           /\ req[i] = req[j]
           /\ Did(i, "call") /\ Did(j, "call")) =>
              /\ Len(calls[i]) = 1 /\ Len(calls[j]) = 1
              /\ calls[i][1].payload = calls[j][1].payload

\* the same verified payload is being handled twice at once: both handlings have
\* issued their call and neither has been answered yet
C6_Witness ==
    \E i, j \in Requests :
        /\ i # j
        /\ req[i] = req[j]
        /\ pc[i] = "text" /\ pc[j] = "fetch"
        /\ Len(calls[i]) = 1 /\ Len(calls[j]) = 1
        /\ calls[i][1].payload = calls[j][1].payload
        /\ calls[i][1].payload.email = Str(<<"a", "@", "b", ".", "c">>)

\* C7: in each handler, a request whose method is not POST is answered 200 "alive"
\* and nothing else happens: no body read, no signature check, no parse, no
\* extraction, no outbound call, whatever the environment holds.
C7_NonPost ==
    \A i \in Requests :
        (pc[i] # "new" /\ req[i].method # "POST") =>
            /\ pc[i] = "done"
            /\ resp[i] = Alive
            /\ trace[i] = <<>>
            /\ calls[i] = <<>>
            /\ loc[i] = NoLocals

\* a GET was answered by the reference handler and another by an echo handler,
\* while no secret and no credentials were configured
C7_Witness ==
    /\ ~Truthy(env.secret) /\ ~Truthy(env.apiKey) /\ ~Truthy(env.groupId)
    /\ \E i \in Requests :
          req[i].method = "GET" /\ req[i].handler = "final" /\ resp[i] = Alive
    /\ \E i \in Requests :
          /\ req[i].method = "GET" /\ req[i].handler \in {"echo", "echoParse"}
          /\ resp[i] = Alive

=============================================================================
